---- MODULE Spec2Model ----
(***************************************************************************)
(* Model of playbooks/library/cloudera/cdh.py: the retry decorator, the    *)
(* Parcels life cycle, the Service deployment protocol and the             *)
(* ClouderaManager orchestration, run against a Cloudera Manager control   *)
(* plane whose answers are nondeterministic.                               *)
(***************************************************************************)
EXTENDS Integers, Sequences, FiniteSets, TLC

VARIABLES
  cfg,              \* the loaded cluster.yaml document (self.config)
  script,           \* outcomes of the successive invocations of a wrapped function
  rt,               \* the frame of the running retry_loop
  cm_cluster,       \* control plane: the cluster entity and its enrolled hosts
  cm_parcel,        \* control plane: the CDH parcel of the configured version
  cm_config,        \* control plane: REMOTE_PARCEL_REPO_URLS of the manager
  cm_mgmt,          \* control plane: the management service and its roles
  cm_svc,           \* control plane: the services of the cluster, by name
  pc,               \* position of the run in the code
  err,              \* the exception that ended the run, "none" while it runs
  run,              \* 1 in the first invocation of setup(), 2 in a re-invocation
  prev,             \* how the first invocation ended, "none" during it
  stop,             \* service_orchestrate's stop argument
  services,         \* service_orchestrate's services argument
  ki,               \* index of the service being handled in `services`
  service_classes,  \* service_orchestrate's list of deployed Service objects
  ri,               \* index of the role of config['roles'] being handled
  role_id,          \* create_roles' role_id
  ci,               \* number of commands the running pre/post start hook has issued
  last_cmd,         \* what the last wait on, or fetch of, a command reported
  trace,            \* remote operations and hook calls of this invocation, in order
  first             \* the topology the first invocation started from, then left behind

vars == <<cfg, script, rt, cm_cluster, cm_parcel, cm_config, cm_mgmt, cm_svc,
          pc, err, run, prev, stop, services, ki, service_classes, ri, role_id,
          ci, last_cmd, trace, first>>

remoteVars == <<cm_cluster, cm_parcel, cm_config, cm_mgmt, cm_svc>>
loopVars == <<stop, services, ki, service_classes, ri, role_id, ci, last_cmd>>
runVars == <<cfg, script, run, prev, first>>

-----------------------------------------------------------------------------
(* Bounds of the model *)

MaxAttempts == 3        \* largest `attempts` given to retry() on its own
MaxListedHosts == 2     \* longest host list of the cluster section
MaxRoleSpecs == 2       \* longest 'roles' list of a service deployed on its own

(* Constants of the program *)

DefaultAttempts == 3
DefaultDelay == 5
CheckStateAttempts == 20
CheckStateDelay == 30
InspectAttempts == 20
InspectDelay == 5
ShortWait == 60
LongWait == 300

BASE_SERVICES == <<"Zookeeper", "Hdfs", "Yarn">>
ADDITIONAL_SERVICES ==
  <<"Spark_On_Yarn", "Hbase", "Hive", "Impala", "Flume", "Oozie", "Sqoop">>

\* str.upper() on the class names of the Service subclasses
Upper(s) ==
  CASE s = "Zookeeper" -> "ZOOKEEPER"
    [] s = "Hdfs" -> "HDFS"
    [] s = "Yarn" -> "YARN"
    [] s = "Spark_On_Yarn" -> "SPARK_ON_YARN"
    [] s = "Hbase" -> "HBASE"
    [] s = "Hive" -> "HIVE"
    [] s = "Impala" -> "IMPALA"
    [] s = "Flume" -> "FLUME"
    [] s = "Oozie" -> "OOZIE"
    [] s = "Sqoop" -> "SQOOP"
    [] OTHER -> s

Range(s) == {s[i] : i \in DOMAIN s}

ServiceNames == {Upper(s) : s \in Range(BASE_SERVICES) \cup Range(ADDITIONAL_SERVICES)}

-----------------------------------------------------------------------------
(* retry(attempts, delay) *)

\* What one invocation of the wrapped function does.
Returns(v) == [kind |-> "return", value |-> v]
Raises(e) == [kind |-> e, value |-> "None"]

\* retry_loop before its first iteration: attempt_counter = 1 and the while test.
retry_enter(attempts, delay) ==
  [attempts |-> attempts, delay |-> delay, attempt_counter |-> 1,
   calls |-> 0, sleeps |-> 0, slept |-> 0,
   status |-> IF 1 <= attempts THEN "running" ELSE "returned",
   result |-> "None", exc |-> "none"]

\* A broken loop that retries once more than it may (attempt_counter < attempts + 1).
retry_loop_off_by_one(r, outcome) ==
  LET called == [r EXCEPT !.calls = @ + 1] IN
  CASE outcome.kind = "return" ->
         [called EXCEPT !.status = "returned", !.result = outcome.value]
    [] outcome.kind = "ApiException" ->
         IF r.attempt_counter = r.attempts + 1
         THEN [called EXCEPT !.status = "raised", !.exc = "ApiException"]
         ELSE [called EXCEPT !.sleeps = @ + 1, !.slept = @ + r.delay,
                             !.attempt_counter = @ + 1]
    [] OTHER -> [called EXCEPT !.status = "raised", !.exc = outcome.kind]

\* A broken loop that catches every exception, not ApiException alone.
retry_loop_catch_all(r, outcome) ==
  LET called == [r EXCEPT !.calls = @ + 1] IN
  CASE outcome.kind = "return" ->
         [called EXCEPT !.status = "returned", !.result = outcome.value]
    [] OTHER ->
         IF r.attempt_counter = r.attempts
         THEN [called EXCEPT !.status = "raised", !.exc = outcome.kind]
         ELSE [called EXCEPT !.sleeps = @ + 1, !.slept = @ + r.delay,
                             !.attempt_counter = @ + 1]

\* One iteration of retry_loop's while body, the wrapped function ending in `outcome`.
retry_loop(r, outcome) ==
  LET called == [r EXCEPT !.calls = @ + 1] IN
  CASE outcome.kind = "return" ->
         [called EXCEPT !.status = "returned", !.result = outcome.value]
    [] outcome.kind = "ApiException" ->
         IF r.attempt_counter = r.attempts
         THEN [called EXCEPT !.status = "raised", !.exc = "ApiException"]
         ELSE [called EXCEPT !.sleeps = @ + 1, !.slept = @ + r.delay,
                             !.attempt_counter = @ + 1,
                             !.status = IF r.attempt_counter + 1 <= r.attempts
                                        THEN "running" ELSE "returned"]
    [] OTHER -> [called EXCEPT !.status = "raised", !.exc = outcome.kind]

\* No retry_loop is running.
NoRetry == [retry_enter(0, 0) EXCEPT !.status = "idle"]

-----------------------------------------------------------------------------
(* The topology document: config['cluster'], config['parcel'], config['services'] *)

\* The hosts the control plane knows, in the order list_hosts() reports them.
HostOrder == <<"h1", "h2", "h3">>
Hosts == {HostOrder[i] : i \in DOMAIN HostOrder}

\* One entry of a service's 'roles' list; a key may be missing from the mapping.
RoleSpec(group, hosts) ==
  [hasGroup |-> TRUE, group |-> group, hasHosts |-> TRUE, hosts |-> hosts,
   config |-> "role-config"]
RoleSpecNoGroup(hosts) ==
  [hasGroup |-> FALSE, group |-> "", hasHosts |-> TRUE, hosts |-> hosts,
   config |-> "role-config"]
RoleSpecNoHosts(group) ==
  [hasGroup |-> TRUE, group |-> group, hasHosts |-> FALSE, hosts |-> <<>>,
   config |-> "role-config"]
RoleSpecEmpty ==
  [hasGroup |-> FALSE, group |-> "", hasHosts |-> FALSE, hosts |-> <<>>,
   config |-> "role-config"]

\* config['services'][NAME]; `present` is FALSE when the document has no such key.
ServiceConfig(roles) ==
  [present |-> TRUE, config |-> "service-config", hasRoles |-> TRUE, roles |-> roles]
ServiceConfigNoRoles ==
  [present |-> TRUE, config |-> "service-config", hasRoles |-> FALSE, roles |-> <<>>]
NoServiceConfig ==
  [present |-> FALSE, config |-> "", hasRoles |-> FALSE, roles |-> <<>>]

\* dict.get(key) as Python's truth test sees it: a missing key and an empty value are falsy.
get_group(role) == role.hasGroup /\ role.group # ""
get_hosts(role) == role.hasHosts /\ role.hosts # <<>>
get_roles(config) == config.hasRoles /\ config.roles # <<>>

-----------------------------------------------------------------------------
(* The control plane *)

\* Parcel stages in life-cycle order.
Stages == <<"UNAVAILABLE", "DOWNLOADING", "DOWNLOADED", "DISTRIBUTING",
            "DISTRIBUTED", "ACTIVATING", "ACTIVATED", "INUSE">>

StageRank(stage) == CHOOSE i \in DOMAIN Stages : Stages[i] = stage

\* Parcel.start_download(), start_distribution(), activate() on the control plane:
\* each starts its phase from the stage before it and is a no-op otherwise.
start_download(p) ==
  IF p.stage = "UNAVAILABLE" THEN [p EXCEPT !.stage = "DOWNLOADING"] ELSE p
start_distribution(p) ==
  IF p.stage = "DOWNLOADED" THEN [p EXCEPT !.stage = "DISTRIBUTING"] ELSE p
activate(p) ==
  IF p.stage = "DISTRIBUTED" THEN [p EXCEPT !.stage = "ACTIVATING"] ELSE p

\* What cluster.get_parcel may answer next: a phase in progress may have finished,
\* an error may have been reported, an unknown parcel may have been found.
Settled(stage) ==
  CASE stage = "DOWNLOADING" -> "DOWNLOADED"
    [] stage = "DISTRIBUTING" -> "DISTRIBUTED"
    [] stage = "ACTIVATING" -> "ACTIVATED"
    [] OTHER -> stage

get_parcel(p) ==
  {[known |-> k, stage |-> s, errors |-> e] :
     k \in {p.known, TRUE}, s \in {p.stage, Settled(p.stage)},
     e \in {p.errors, TRUE}}

\* A role instance of a service.
Role(name, type, host) ==
  [name |-> name, type |-> type, host |-> host, serverId |-> 0]

NoService ==
  [exists |-> FALSE, serviceState |-> "NA", config |-> "", roles |-> {}, groups |-> {}]

NewService ==
  [exists |-> TRUE, serviceState |-> "STOPPED", config |-> "", roles |-> {},
   groups |-> {}]

RoleNames(service) == {r.name : r \in service.roles}

\* The cluster/host/service/role topology the control plane holds.
Topology ==
  [cluster |-> cm_cluster.exists, hosts |-> cm_cluster.hosts,
   services |-> {k \in ServiceNames : cm_svc[k].exists},
   roles |-> [k \in ServiceNames |->
                {<<r.name, r.host>> : r \in cm_svc[k].roles}],
   mgmt |-> cm_mgmt.exists,
   mgmt_roles |-> {<<r.name, r.host>> : r \in cm_mgmt.roles}]

-----------------------------------------------------------------------------
(* The call-order trace *)

Event(op, k, g, i, h, hs) == [op |-> op, k |-> k, g |-> g, i |-> i, h |-> h, hs |-> hs]
Op(op) == Event(op, "", "", 0, "", <<>>)
SvcOp(op, k) == Event(op, k, "", 0, "", <<>>)
GroupOp(op, k, g) == Event(op, k, g, 0, "", <<>>)
RoleOp(op, k, g, i, h) == Event(op, k, g, i, h, <<>>)
HostsOp(op, hs) == Event(op, "", "", 0, "", hs)
Answer(op, answer) == Event(op, "", "", 0, answer, <<>>)
SvcAnswer(op, k, answer) == Event(op, k, "", 0, answer, <<>>)
WaitOp(k, name, timeout) == Event("wait", k, name, timeout, "", <<>>)

\* Operations that create an entity on the control plane.
CreateOps == {"create_cluster", "create_service", "create_role",
              "create_mgmt_service", "mgmt_create_role"}

\* Operations that change the control plane.
MutationOps == CreateOps \cup {"add_hosts", "manager_update_config",
              "service_update_config", "group_update_config",
              "role_update_config", "mgmt_group_update_config"}

Created(t) == {i \in DOMAIN t : t[i].op \in CreateOps}

\* First position of an event in the trace, 0 when it is not there.
Pos(t, e) == IF \E i \in DOMAIN t : t[i] = e
             THEN CHOOSE i \in DOMAIN t : t[i] = e /\ \A j \in 1..(i - 1) : t[j] # e
             ELSE 0

\* The run ends with an exception.
Fail(e) == pc' = "failed" /\ err' = e

-----------------------------------------------------------------------------
(* retry() applied to a function on its own *)

\* retry_loop invokes the wrapped function once more.
retry_call ==
  /\ pc = "retry"
  /\ rt.status = "running"
  /\ rt.calls < Len(script)
  /\ rt' = retry_loop(rt, script[rt.calls + 1])
  /\ UNCHANGED <<runVars, remoteVars, pc, err, loopVars, trace>>

-----------------------------------------------------------------------------
(* ClouderaManager.create_cluster *)

\* All the listed hosts, enrolled or not.
hosts_to_add_all(listed, cluster_hosts) == listed

\* The hosts of the document the cluster does not list yet, in document order.
hosts_to_add(listed, cluster_hosts) ==
  SelectSeq(listed, LAMBDA host : host \notin cluster_hosts)

\* [api.get_host(host.hostId).hostname for host in cluster.list_hosts()]
list_hosts(cluster) == SelectSeq(HostOrder, LAMBDA host : host \in cluster.hosts)

\* get_cluster by name, create_cluster on ApiException.
create_cluster ==
  /\ pc = "create_cluster"
  /\ IF cm_cluster.exists
     THEN /\ trace' = trace \o <<Answer("get_cluster", "found")>>
          /\ UNCHANGED cm_cluster
     ELSE /\ trace' = trace \o <<Answer("get_cluster", "ApiException"),
                                 Op("create_cluster")>>
          /\ cm_cluster' = [exists |-> TRUE, hosts |-> {}]
  /\ pc' = "add_hosts"
  /\ UNCHANGED <<runVars, rt, cm_parcel, cm_config, cm_mgmt, cm_svc, err, loopVars>>

\* list_hosts, the diff against config['cluster']['hosts'], add_hosts.
add_hosts ==
  /\ pc = "add_hosts"
  /\ LET cluster_hosts == list_hosts(cm_cluster)
         hosts == hosts_to_add(cfg.cluster.hosts, Range(cluster_hosts))
     IN /\ trace' = trace \o <<HostsOp("list_hosts", cluster_hosts),
                               HostsOp("add_hosts", hosts)>>
        /\ cm_cluster' = [cm_cluster EXCEPT !.hosts = @ \cup Range(hosts)]
  /\ pc' = "validate"
  /\ UNCHANGED <<runVars, rt, cm_parcel, cm_config, cm_mgmt, cm_svc, err, loopVars>>

-----------------------------------------------------------------------------
(* Parcels *)

\* Parcels.check_error followed by `next`: fail() when the parcel carries errors.
check_error(p, next) ==
  IF p.errors THEN Fail("SystemExit") ELSE pc' = next /\ err' = err

\* ','.join([repo_config.value or repo_config.default, self.repo])
join_repo(repo_config, repo) ==
  (IF repo_config.value # <<>> THEN repo_config.value ELSE repo_config.default)
    \o <<repo>>

\* Parcels.__init__ -> validate(), up to the first poll of wait_parcel.
validate ==
  /\ pc = "validate"
  /\ IF cm_parcel.known
     THEN /\ check_error(cm_parcel, "download")
          /\ trace' = trace \o <<Op("get_parcel")>>
          /\ UNCHANGED <<cm_config, rt>>
     ELSE IF ~cfg.parcel.hasRepo
     THEN /\ Fail("Exception")
          /\ trace' = trace \o <<Op("get_parcel")>>
          /\ UNCHANGED <<cm_config, rt>>
     ELSE /\ cm_config' = [cm_config EXCEPT
                             !.value = join_repo(cm_config, cfg.parcel.repo)]
          /\ trace' = trace \o <<Op("get_parcel"), Op("manager_get_config"),
                                 Op("manager_update_config")>>
          /\ rt' = retry_enter(DefaultAttempts, DefaultDelay)
          /\ pc' = "wait_parcel"
          /\ err' = err
  /\ UNCHANGED <<runVars, cm_cluster, cm_parcel, cm_mgmt, cm_svc, loopVars>>

\* One invocation of wait_parcel under @retry(), then check_error on its result.
wait_parcel ==
  /\ pc = "wait_parcel"
  /\ rt.status = "running"
  /\ \E p \in get_parcel(cm_parcel) :
       LET outcome == IF p.known THEN Returns("parcel") ELSE Raises("ApiException")
           r == retry_loop(rt, outcome)
       IN /\ cm_parcel' = p
          /\ rt' = r
          /\ CASE r.status = "returned" -> check_error(p, "download")
               [] r.status = "raised" -> Fail(r.exc)
               [] OTHER -> pc' = pc /\ err' = err
  /\ UNCHANGED <<runVars, cm_cluster, cm_config, cm_mgmt, cm_svc, loopVars, trace>>

\* The `states` argument check_state is called with by download, distribute, activate.
download_states == {"DOWNLOADED", "DISTRIBUTED", "ACTIVATED", "INUSE"}
distribute_states == {"DISTRIBUTED", "ACTIVATED", "INUSE"}
activate_states == {"ACTIVATED", "INUSE"}

\* A download post-check that accepts only the target state itself.
states_of_exact(at) ==
  CASE at = "check_download" -> {"DOWNLOADED"}
    [] at = "check_distribute" -> {"DISTRIBUTED"}
    [] at = "check_activate" -> {"ACTIVATED"}

states_of(at) ==
  CASE at = "check_download" -> download_states
    [] at = "check_distribute" -> distribute_states
    [] at = "check_activate" -> activate_states

\* Where the caller of check_state goes on when it returns.
after_check(at) ==
  CASE at = "check_download" -> "distribute"
    [] at = "check_distribute" -> "activate"
    [] at = "check_activate" -> "inspect_hosts"

\* A check_state that looks at the stage before it looks at the errors.
check_state_body_stage_first(p, states) ==
  IF p.stage \in states THEN Returns("None")
  ELSE IF p.errors THEN Raises("SystemExit")
  ELSE Raises("ApiException")

\* What one invocation of check_state's body does with the parcel it fetched.
check_state_body(p, states) ==
  IF p.errors THEN Raises("SystemExit")
  ELSE IF p.stage \in states THEN Returns("None")
  ELSE Raises("ApiException")

\* Parcels.download: start_download, then check_state under @retry(20, 30).
download ==
  /\ pc = "download"
  /\ cm_parcel' = start_download(cm_parcel)
  /\ trace' = trace \o <<Op("start_download")>>
  /\ rt' = retry_enter(CheckStateAttempts, CheckStateDelay)
  /\ pc' = "check_download"
  /\ UNCHANGED <<runVars, cm_cluster, cm_config, cm_mgmt, cm_svc, err, loopVars>>

\* Parcels.distribute
distribute ==
  /\ pc = "distribute"
  /\ cm_parcel' = start_distribution(cm_parcel)
  /\ trace' = trace \o <<Op("start_distribution")>>
  /\ rt' = retry_enter(CheckStateAttempts, CheckStateDelay)
  /\ pc' = "check_distribute"
  /\ UNCHANGED <<runVars, cm_cluster, cm_config, cm_mgmt, cm_svc, err, loopVars>>

\* Parcels.activate
activate_parcel ==
  /\ pc = "activate"
  /\ cm_parcel' = activate(cm_parcel)
  /\ trace' = trace \o <<Op("activate")>>
  /\ rt' = retry_enter(CheckStateAttempts, CheckStateDelay)
  /\ pc' = "check_activate"
  /\ UNCHANGED <<runVars, cm_cluster, cm_config, cm_mgmt, cm_svc, err, loopVars>>

\* One invocation of check_state under its retry_loop.
check_state ==
  /\ pc \in {"check_download", "check_distribute", "check_activate"}
  /\ rt.status = "running"
  /\ \E p \in get_parcel(cm_parcel) :
       LET r == retry_loop(rt, check_state_body(p, states_of(pc)))
       IN /\ cm_parcel' = p
          /\ rt' = r
          /\ CASE r.status = "returned" -> pc' = after_check(pc) /\ err' = err
               [] r.status = "raised" -> Fail(r.exc)
               [] OTHER -> pc' = pc /\ err' = err
  /\ UNCHANGED <<runVars, cm_cluster, cm_config, cm_mgmt, cm_svc, loopVars, trace>>

-----------------------------------------------------------------------------
(* ClouderaManager.wait_inspect_hosts *)

\* manager.inspect_hosts(), then wait_inspect_hosts under @retry(20, 5).
inspect_hosts ==
  /\ pc = "inspect_hosts"
  /\ trace' = trace \o <<Op("inspect_hosts")>>
  /\ rt' = retry_enter(InspectAttempts, InspectDelay)
  /\ pc' = "wait_inspect_hosts"
  /\ UNCHANGED <<runVars, remoteVars, err, loopVars>>

\* A wait_inspect_hosts that takes a failed inspection for a pending one
\* (`if not cmd.success` before the test for None).
wait_inspect_hosts_body_falsy(success) ==
  CASE success \in {"None", "False"} -> Raises("ApiException")
    [] OTHER -> Returns("None")

\* What one invocation of wait_inspect_hosts does with the fetched cmd.success.
wait_inspect_hosts_body(success) ==
  CASE success = "None" -> Raises("ApiException")
    [] success = "False" -> Raises("SystemExit")
    [] OTHER -> Returns("None")

\* One invocation of wait_inspect_hosts under its retry_loop.
wait_inspect_hosts ==
  /\ pc = "wait_inspect_hosts"
  /\ rt.status = "running"
  /\ \E success \in {"None", "True", "False"} :
       LET r == retry_loop(rt, wait_inspect_hosts_body(success))
       IN /\ rt' = r
          /\ last_cmd' = success
          /\ CASE r.status = "returned" -> pc' = "mgmt_service" /\ err' = err
               [] r.status = "raised" -> Fail(r.exc)
               [] OTHER -> pc' = pc /\ err' = err
  /\ UNCHANGED <<runVars, remoteVars, stop, services, ki, service_classes, ri,
                 role_id, ci, trace>>

-----------------------------------------------------------------------------
(* ClouderaManager.deploy_mgmt_services *)

\* A role name that counts from 0.
mgmt_role_name_zero_based(group) == <<group, 0>>

\* '{}-1'.format(role['group'])
mgmt_role_name(group) == <<group, 1>>

\* setup() calls service_orchestrate(BASE_SERVICES, stop=True).
orchestrate_base ==
  /\ pc' = "orchestrate"
  /\ services' = BASE_SERVICES
  /\ stop' = TRUE
  /\ ki' = 1
  /\ service_classes' = <<>>
  /\ UNCHANGED <<ri, role_id, ci, last_cmd>>

\* manager.get_service(), create_mgmt_service on ApiException, return when STARTED.
mgmt_service ==
  /\ pc = "mgmt_service"
  /\ rt' = NoRetry
  /\ IF cm_mgmt.exists /\ cm_mgmt.serviceState = "STARTED"
     THEN /\ orchestrate_base
          /\ trace' = trace \o <<Op("mgmt_get_service")>>
          /\ UNCHANGED cm_mgmt
     ELSE /\ IF cm_mgmt.exists
             THEN /\ trace' = trace \o <<Op("mgmt_get_service")>>
                  /\ UNCHANGED cm_mgmt
             ELSE /\ trace' = trace \o <<Op("mgmt_get_service"),
                                         Op("create_mgmt_service")>>
                  /\ cm_mgmt' = NewService
          /\ pc' = IF cfg.mgmt = <<>> THEN "mgmt_start" ELSE "mgmt_roles"
          /\ ri' = 1
          /\ UNCHANGED <<stop, services, ki, service_classes, role_id, ci, last_cmd>>
  /\ UNCHANGED <<runVars, cm_cluster, cm_parcel, cm_config, cm_svc, err>>

\* First loop over config['services']['MGMT']['roles']: one role per role type.
mgmt_roles ==
  /\ pc = "mgmt_roles"
  /\ LET role == cfg.mgmt[ri]
         have == {r \in cm_mgmt.roles : r.type = role.group}
     IN IF have # {}
        THEN /\ trace' = trace \o <<GroupOp("mgmt_get_roles_by_type", "MGMT", role.group)>>
             /\ UNCHANGED cm_mgmt
        ELSE /\ trace' = trace \o
                  <<GroupOp("mgmt_get_roles_by_type", "MGMT", role.group),
                    RoleOp("mgmt_create_role", "MGMT", role.group, 1, role.hosts[1])>>
             /\ cm_mgmt' = [cm_mgmt EXCEPT !.roles = @ \cup
                  {Role(mgmt_role_name(role.group), role.group, role.hosts[1])}]
  /\ IF ri < Len(cfg.mgmt)
     THEN ri' = ri + 1 /\ pc' = pc
     ELSE ri' = 1 /\ pc' = "mgmt_groups"
  /\ UNCHANGED <<runVars, rt, cm_cluster, cm_parcel, cm_config, cm_svc, err,
                 stop, services, ki, service_classes, role_id, ci, last_cmd>>

\* Second loop: push each role's config to the group mgmt-{group}-BASE.
mgmt_groups ==
  /\ pc = "mgmt_groups"
  /\ LET role == cfg.mgmt[ri]
     IN /\ trace' = trace \o
             <<GroupOp("mgmt_get_role_config_group", "MGMT", role.group),
               GroupOp("mgmt_group_update_config", "MGMT", role.group)>>
        /\ cm_mgmt' = [cm_mgmt EXCEPT !.groups = @ \cup {<<role.group, role.config>>}]
  /\ IF ri < Len(cfg.mgmt)
     THEN ri' = ri + 1 /\ pc' = pc
     ELSE ri' = 1 /\ pc' = "mgmt_start"
  /\ UNCHANGED <<runVars, rt, cm_cluster, cm_parcel, cm_config, cm_svc, err,
                 stop, services, ki, service_classes, role_id, ci, last_cmd>>

\* cmd.wait() without a timeout on a command that never completes: the call
\* does not return, and the run stays in it.
wait_forever(events) ==
  /\ trace' = trace \o events
  /\ pc' = "blocked"
  /\ err' = err

\* A deploy_mgmt_services that goes on when the management service did not start.
mgmt_start_ignoring_failure ==
  /\ pc = "mgmt_start"
  /\ \/ wait_forever(<<Op("mgmt_start"), WaitOp("MGMT", "start", 0)>>)
        /\ UNCHANGED <<cm_mgmt, loopVars>>
     \/ /\ trace' = trace \o <<Op("mgmt_start"), WaitOp("MGMT", "start", 0),
                                Op("mgmt_get_service")>>
        /\ \E started \in BOOLEAN :
             cm_mgmt' = IF started THEN [cm_mgmt EXCEPT !.serviceState = "STARTED"]
                        ELSE cm_mgmt
        /\ orchestrate_base
        /\ err' = err
  /\ UNCHANGED <<runVars, rt, cm_cluster, cm_parcel, cm_config, cm_svc>>

\* mgmt.start().wait(), then the serviceState check.
mgmt_start ==
  /\ pc = "mgmt_start"
  /\ \/ wait_forever(<<Op("mgmt_start"), WaitOp("MGMT", "start", 0)>>)
        /\ UNCHANGED <<cm_mgmt, loopVars>>
     \/ /\ trace' = trace \o <<Op("mgmt_start"), WaitOp("MGMT", "start", 0),
                                Op("mgmt_get_service")>>
        /\ \E started \in BOOLEAN :
             IF started
             THEN /\ cm_mgmt' = [cm_mgmt EXCEPT !.serviceState = "STARTED"]
                  /\ orchestrate_base
                  /\ err' = err
             ELSE /\ UNCHANGED <<cm_mgmt, loopVars>>
                  /\ Fail("SystemExit")
  /\ UNCHANGED <<runVars, rt, cm_cluster, cm_parcel, cm_config, cm_svc>>

-----------------------------------------------------------------------------
(* Service: deploy, create_roles, pre_start, post_start *)

\* Service.name of the Service object being deployed.
name == Upper(services[ki])

\* A 0-based ordinal in the role name.
role_name_zero_based(service, group, id) == <<service, group, id - 1>>

\* '{}-{}-{}'.format(self.name, group, role_id)
role_name(service, group, id) == <<service, group, id>>

\* The commands a hook issues: its name, whether it is waited on, and for how long.
Cmd(cmd, timeout) == [cmd |-> cmd, waited |-> TRUE, timeout |-> timeout]
Unwaited(cmd) == [cmd |-> cmd, waited |-> FALSE, timeout |-> 0]

pre_start_commands(service) ==
  CASE service = "ZOOKEEPER" -> <<Unwaited("init_zookeeper")>>
    [] service = "HDFS" -> <<Cmd("format_hdfs", ShortWait)>>
    [] service = "SPARK_ON_YARN" ->
         <<Cmd("CreateSparkUserDirCommand", ShortWait),
           Cmd("CreateSparkHistoryDirCommand", ShortWait),
           Cmd("SparkUploadJarServiceCommand", ShortWait)>>
    [] service = "HBASE" -> <<Cmd("create_hbase_root", ShortWait)>>
    [] service = "HIVE" -> <<Cmd("create_hive_warehouse", ShortWait)>>
    [] service = "IMPALA" -> <<Cmd("create_impala_user_dir", ShortWait)>>
    [] service = "OOZIE" -> <<Cmd("create_oozie_db", LongWait),
                              Cmd("install_oozie_sharelib", LongWait)>>
    [] service = "SQOOP" -> <<Cmd("create_sqoop_user_dir", LongWait),
                              Cmd("create_sqoop_database_tables", LongWait)>>
    [] OTHER -> <<>>

post_start_commands(service) ==
  CASE service = "HDFS" -> <<Unwaited("create_hdfs_tmp")>>
    [] service = "HIVE" -> <<Cmd("create_hive_metastore_database", ShortWait),
                             Cmd("create_hive_metastore_tables", ShortWait)>>
    [] OTHER -> <<>>

\* The remote operations of one command of a hook.
cmd_events(service, c) ==
  IF c.waited
  THEN <<GroupOp("command", service, c.cmd), WaitOp(service, c.cmd, c.timeout)>>
  ELSE <<GroupOp("command", service, c.cmd)>>

\* A service_orchestrate that stops the cluster whatever `stop` says.
orchestrate_always_stopping ==
  /\ pc = "orchestrate"
  /\ last_cmd' = "none"
  /\ IF ki <= Len(services)
     THEN IF cfg.services[name].present
          THEN /\ pc' = "deploy"
               /\ trace' = trace \o <<SvcOp("deploy", name)>>
               /\ ki' = ki
          ELSE /\ pc' = pc
               /\ ki' = ki + 1
               /\ trace' = trace
     ELSE /\ pc' = "cluster_stop"
          /\ ki' = ki
          /\ trace' = trace
  /\ UNCHANGED <<runVars, rt, remoteVars, err, stop, services, service_classes,
                 ri, role_id, ci>>

\* service_orchestrate's first loop: the next entry of `services`.
orchestrate ==
  /\ pc = "orchestrate"
  /\ last_cmd' = "none"
  /\ IF ki <= Len(services)
     THEN IF cfg.services[name].present
          THEN /\ pc' = "deploy"
               /\ trace' = trace \o <<SvcOp("deploy", name)>>
               /\ ki' = ki
          ELSE /\ pc' = pc
               /\ ki' = ki + 1
               /\ trace' = trace
     ELSE /\ pc' = IF stop THEN "cluster_stop" ELSE "cluster_start"
          /\ ki' = ki
          /\ trace' = trace
  /\ UNCHANGED <<runVars, rt, remoteVars, err, stop, services, service_classes,
                 ri, role_id, ci>>

\* A deploy() without the test of started(): it configures a running service.
deploy_without_short_circuit ==
  /\ pc = "deploy"
  /\ IF cm_svc[name].exists
     THEN /\ trace' = trace \o
               <<SvcAnswer("get_service", name, cm_svc[name].serviceState)>>
          /\ UNCHANGED cm_svc
     ELSE /\ trace' = trace \o <<SvcAnswer("get_service", name, "ApiException"),
                                 SvcOp("create_service", name)>>
          /\ cm_svc' = [cm_svc EXCEPT ![name] = NewService]
  /\ pc' = "update_config"
  /\ ci' = 0
  /\ UNCHANGED <<runVars, rt, cm_cluster, cm_parcel, cm_config, cm_mgmt, err,
                 stop, services, ki, service_classes, ri, role_id, last_cmd>>

\* Service.started(): the service property (get_service, create_service on
\* ApiException), then deploy() returns when the service is STARTED.
deploy ==
  /\ pc = "deploy"
  /\ IF cm_svc[name].exists
     THEN /\ trace' = trace \o
               <<SvcAnswer("get_service", name, cm_svc[name].serviceState)>>
          /\ UNCHANGED cm_svc
     ELSE /\ trace' = trace \o <<SvcAnswer("get_service", name, "ApiException"),
                                 SvcOp("create_service", name)>>
          /\ cm_svc' = [cm_svc EXCEPT ![name] = NewService]
  /\ pc' = IF cm_svc[name].serviceState = "STARTED" THEN "pre_start"
           ELSE "update_config"
  /\ ci' = 0
  /\ UNCHANGED <<runVars, rt, cm_cluster, cm_parcel, cm_config, cm_mgmt, err,
                 stop, services, ki, service_classes, ri, role_id, last_cmd>>

\* A deploy() that accepts a service without roles.
roles_missing_never(config) == FALSE

\* `if not self.config.get('roles')`
roles_missing(config) == ~get_roles(config)

\* service.update_config(config.get('config', {})), then the check of 'roles'.
update_config ==
  /\ pc = "update_config"
  /\ trace' = trace \o <<SvcOp("service_update_config", name)>>
  /\ cm_svc' = [cm_svc EXCEPT ![name].config = cfg.services[name].config]
  /\ IF roles_missing(cfg.services[name])
     THEN Fail("Exception") /\ ri' = ri
     ELSE pc' = "role" /\ ri' = 1 /\ err' = err
  /\ UNCHANGED <<runVars, rt, cm_cluster, cm_parcel, cm_config, cm_mgmt,
                 stop, services, ki, service_classes, role_id, ci, last_cmd>>

\* `if not role.get('group') and role.get('hosts')`
role_rejected(role) == ~get_group(role) /\ get_hosts(role)

\* After the last host of a role: the next role of the loop in deploy(), or its end.
next_role ==
  IF ri < Len(cfg.services[name].roles)
  THEN ri' = ri + 1 /\ pc' = "role"
  ELSE ri' = ri /\ pc' = "pre_start"

\* One iteration of deploy()'s loop up to the first host of create_roles.
role_group ==
  /\ pc = "role"
  /\ LET role == cfg.services[name].roles[ri]
     IN IF role_rejected(role)
        THEN Fail("Exception") /\ UNCHANGED <<cm_svc, trace, ri, role_id>>
        ELSE IF ~role.hasGroup
        THEN Fail("KeyError") /\ UNCHANGED <<cm_svc, trace, ri, role_id>>
        ELSE /\ trace' = trace \o
                  <<GroupOp("get_role_config_group", name, role.group),
                    GroupOp("group_update_config", name, role.group)>>
             /\ cm_svc' = [cm_svc EXCEPT ![name].groups =
                             @ \cup {<<role.group, role.config>>}]
             /\ role_id' = 0
             /\ IF ~role.hasHosts
                THEN Fail("KeyError") /\ ri' = ri
                ELSE IF role.hosts = <<>>
                THEN next_role /\ err' = err
                ELSE pc' = "create_roles" /\ ri' = ri /\ err' = err
  /\ UNCHANGED <<runVars, rt, cm_cluster, cm_parcel, cm_config, cm_mgmt,
                 stop, services, ki, service_classes, ci, last_cmd>>

\* role.update_config({'serverId': role_id}) of Zookeeper.create_roles.
set_server_id(roles, rname, id) ==
  {IF r.name = rname THEN [r EXCEPT !.serverId = id] ELSE r : r \in roles}

\* After a host of role['hosts']: the next host of create_roles' loop, or its end.
next_host ==
  IF role_id' < Len(cfg.services[name].roles[ri].hosts)
  THEN pc' = "create_roles" /\ ri' = ri
  ELSE next_role

\* One iteration of create_roles' loop over role['hosts']: get_role, and
\* create_role on ApiException. Zookeeper's loop body goes on to update_config.
create_roles ==
  /\ pc = "create_roles"
  /\ LET role == cfg.services[name].roles[ri]
         id == role_id + 1
         host == role.hosts[id]
         rname == role_name(name, role.group, id)
         found == rname \in RoleNames(cm_svc[name])
     IN /\ role_id' = id
        /\ trace' = trace
             \o <<RoleOp("get_role", name, role.group, id,
                         IF found THEN "found" ELSE "ApiException")>>
             \o (IF found THEN <<>>
                 ELSE <<RoleOp("create_role", name, role.group, id, host)>>)
        /\ cm_svc' = [cm_svc EXCEPT ![name].roles =
                        IF found THEN @ ELSE @ \cup {Role(rname, role.group, host)}]
        /\ IF name = "ZOOKEEPER"
           THEN pc' = "role_update_config" /\ ri' = ri
           ELSE next_host
  /\ UNCHANGED <<runVars, rt, cm_cluster, cm_parcel, cm_config, cm_mgmt, err,
                 stop, services, ki, service_classes, ci, last_cmd>>

\* The last statement of the loop body of Zookeeper.create_roles, on the role
\* the iteration fetched or created.
role_update_config ==
  /\ pc = "role_update_config"
  /\ LET role == cfg.services[name].roles[ri]
         rname == role_name(name, role.group, role_id)
     IN /\ trace' = trace
             \o <<RoleOp("role_update_config", name, role.group, role_id, "")>>
        /\ cm_svc' = [cm_svc EXCEPT ![name].roles = set_server_id(@, rname, role_id)]
  /\ role_id' = role_id
  /\ next_host
  /\ UNCHANGED <<runVars, rt, cm_cluster, cm_parcel, cm_config, cm_mgmt, err,
                 stop, services, ki, service_classes, ci, last_cmd>>

\* A pre_start that fails the run when a command it waited on did not succeed.
pre_start_aborting_on_failure ==
  /\ pc = "pre_start"
  /\ LET cmds == pre_start_commands(name)
         issued == IF ci < Len(cmds) THEN ci + 1 ELSE ci
     IN /\ trace' = trace
             \o (IF ci = 0 THEN <<SvcOp("pre_start", name)>> ELSE <<>>)
             \o (IF ci < Len(cmds) THEN cmd_events(name, cmds[ci + 1]) ELSE <<>>)
        /\ \E success \in BOOLEAN :
             /\ last_cmd' = IF ci < Len(cmds) /\ cmds[ci + 1].waited
                            THEN (IF success THEN "success" ELSE "failure")
                            ELSE "none"
             /\ IF last_cmd' = "failure"
                THEN /\ Fail("SystemExit")
                     /\ UNCHANGED <<ci, ki, service_classes>>
                ELSE /\ err' = err
                     /\ IF issued < Len(cmds)
                        THEN /\ ci' = issued
                             /\ UNCHANGED <<pc, ki, service_classes>>
                        ELSE /\ ci' = 0
                             /\ service_classes' = Append(service_classes, name)
                             /\ ki' = ki + 1
                             /\ pc' = "orchestrate"
  /\ UNCHANGED <<runVars, rt, remoteVars, stop, services, ri, role_id>>

\* svc.pre_start(), one command at a time, then service_classes.append(svc).
pre_start ==
  /\ pc = "pre_start"
  /\ LET cmds == pre_start_commands(name)
         issued == IF ci < Len(cmds) THEN ci + 1 ELSE ci
     IN /\ trace' = trace
             \o (IF ci = 0 THEN <<SvcOp("pre_start", name)>> ELSE <<>>)
             \o (IF ci < Len(cmds) THEN cmd_events(name, cmds[ci + 1]) ELSE <<>>)
        /\ \E success \in BOOLEAN :
             last_cmd' = IF ci < Len(cmds) /\ cmds[ci + 1].waited
                         THEN (IF success THEN "success" ELSE "failure")
                         ELSE "none"
        /\ IF issued < Len(cmds)
           THEN /\ ci' = issued
                /\ UNCHANGED <<pc, ki, service_classes>>
           ELSE /\ ci' = 0
                /\ service_classes' = Append(service_classes, name)
                /\ ki' = ki + 1
                /\ pc' = "orchestrate"
  /\ UNCHANGED <<runVars, rt, remoteVars, err, stop, services, ri, role_id>>

-----------------------------------------------------------------------------
(* ClouderaManager.service_orchestrate after its first loop, and setup()'s tail *)

\* Cluster-wide stop and start commands on the control plane: they act on the
\* services that have role instances to stop or start.
set_state(svc, state) ==
  [k \in DOMAIN svc |->
     IF svc[k].exists /\ svc[k].roles # {}
     THEN [svc[k] EXCEPT !.serviceState = state] ELSE svc[k]]

\* A setup() that goes on to the additional services before the post-start loop.
after_start_skipping_post_start ==
  IF services = BASE_SERVICES
  THEN /\ pc' = "orchestrate"
       /\ services' = ADDITIONAL_SERVICES
       /\ stop' = FALSE
       /\ ki' = 1
       /\ service_classes' = <<>>
  ELSE /\ pc' = "deploy_client_config"
       /\ UNCHANGED <<services, stop, ki, service_classes>>

\* After cluster.start().wait(): the post-start loop over service_classes.
after_start ==
  /\ pc' = "post_start"
  /\ ki' = 1
  /\ UNCHANGED <<services, stop, service_classes>>

\* service_orchestrate returns to setup(): the second call, or deploy_client_config.
orchestrate_return ==
  IF services = BASE_SERVICES
  THEN /\ pc' = "orchestrate"
       /\ services' = ADDITIONAL_SERVICES
       /\ stop' = FALSE
       /\ ki' = 1
       /\ service_classes' = <<>>
  ELSE /\ pc' = "deploy_client_config"
       /\ UNCHANGED <<services, stop, ki, service_classes>>

\* `if stop: self.cluster.stop().wait()`
cluster_stop ==
  /\ pc = "cluster_stop"
  /\ \/ wait_forever(<<Op("cluster_stop"), WaitOp("", "cluster_stop", 0)>>)
        /\ UNCHANGED cm_svc
     \/ /\ trace' = trace \o <<Op("cluster_stop"), WaitOp("", "cluster_stop", 0)>>
        /\ \E stopped \in BOOLEAN :
             cm_svc' = IF stopped THEN set_state(cm_svc, "STOPPED") ELSE cm_svc
        /\ pc' = "cluster_start"
  /\ last_cmd' = "none"
  /\ UNCHANGED <<runVars, rt, cm_cluster, cm_parcel, cm_config, cm_mgmt, err,
                 stop, services, ki, service_classes, ri, role_id, ci>>

\* self.cluster.start().wait()
cluster_start ==
  /\ pc = "cluster_start"
  /\ \/ wait_forever(<<Op("cluster_start"), WaitOp("", "cluster_start", 0)>>)
        /\ UNCHANGED <<cm_svc, services, stop, ki, service_classes>>
     \/ /\ trace' = trace \o <<Op("cluster_start"), WaitOp("", "cluster_start", 0)>>
        /\ \E started \in BOOLEAN :
             cm_svc' = IF started THEN set_state(cm_svc, "STARTED") ELSE cm_svc
        /\ after_start
  /\ ci' = 0
  /\ last_cmd' = "none"
  /\ UNCHANGED <<runVars, rt, cm_cluster, cm_parcel, cm_config, cm_mgmt, err,
                 ri, role_id>>

\* service_orchestrate's last loop: svc.post_start(), one command at a time.
post_start ==
  /\ pc = "post_start"
  /\ IF ki > Len(service_classes)
     THEN /\ orchestrate_return
          /\ last_cmd' = "none"
          /\ UNCHANGED <<ci, trace>>
     ELSE LET service == service_classes[ki]
              cmds == post_start_commands(service)
              issued == IF ci < Len(cmds) THEN ci + 1 ELSE ci
          IN /\ trace' = trace
                  \o (IF ci = 0 THEN <<SvcOp("post_start", service)>> ELSE <<>>)
                  \o (IF ci < Len(cmds) THEN cmd_events(service, cmds[ci + 1])
                      ELSE <<>>)
             /\ \E success \in BOOLEAN :
                  last_cmd' = IF ci < Len(cmds) /\ cmds[ci + 1].waited
                              THEN (IF success THEN "success" ELSE "failure")
                              ELSE "none"
             /\ IF issued < Len(cmds)
                THEN ci' = issued /\ ki' = ki
                ELSE ci' = 0 /\ ki' = ki + 1
             /\ UNCHANGED <<pc, services, stop, service_classes>>
  /\ UNCHANGED <<runVars, rt, remoteVars, err, ri, role_id>>

\* self.cluster.deploy_client_config(), the last statement of setup().
deploy_client_config ==
  /\ pc = "deploy_client_config"
  /\ trace' = trace \o <<Op("deploy_client_config")>>
  /\ pc' = "done"
  /\ UNCHANGED <<runVars, rt, remoteVars, err, loopVars>>

\* The process is killed, before or after any of its remote calls, or has ended,
\* and setup() is invoked again from the start against the control plane as the
\* first invocation left it.
reinvoke ==
  /\ run = 1
  /\ run' = 2
  /\ prev' = CASE pc = "done" -> "completed"
               [] pc = "failed" -> "failed"
               [] OTHER -> "killed"
  /\ pc' = "create_cluster"
  /\ err' = "none"
  /\ rt' = NoRetry
  /\ trace' = <<>>
  /\ stop' = FALSE
  /\ services' = <<>>
  /\ ki' = 0
  /\ service_classes' = <<>>
  /\ ri' = 0
  /\ role_id' = 0
  /\ ci' = 0
  /\ last_cmd' = "none"
  /\ first' = Topology
  /\ UNCHANGED <<cfg, script, remoteVars>>

-----------------------------------------------------------------------------
(* Topology documents *)

\* All sequences over S of length at most n.
SeqUpTo(S, n) == UNION {[1..k -> S] : k \in 0..n}

Services(given) ==
  [k \in ServiceNames |-> IF k \in DOMAIN given THEN given[k] ELSE NoServiceConfig]

MgmtRoles == <<RoleSpec("SERVICEMONITOR", <<"h1", "h2">>),
               RoleSpec("HOSTMONITOR", <<"h2">>)>>

Document(hosts, hasRepo, given) ==
  [cluster |-> [name |-> "cluster", hosts |-> hosts],
   parcel |-> [version |-> "5", hasRepo |-> hasRepo,
               repo |-> IF hasRepo THEN "repo-b" ELSE ""],
   services |-> Services(given),
   mgmt |-> MgmtRoles]

\* Two base services and one additional service, each with several roles.
SmallServices ==
  "ZOOKEEPER" :> ServiceConfig(<<RoleSpec("SERVER", <<"h1", "h2">>)>>)
  @@ "HDFS" :> ServiceConfig(<<RoleSpec("NAMENODE", <<"h1">>),
                               RoleSpec("DATANODE", <<"h1", "h2">>)>>)
  @@ "HIVE" :> ServiceConfig(<<RoleSpec("HIVEMETASTORE", <<"h1">>),
                               RoleSpec("HIVESERVER2", <<"h2">>)>>)

\* Every service of the catalogue, one role on one host each.
CatalogueServices ==
  "ZOOKEEPER" :> ServiceConfig(<<RoleSpec("SERVER", <<"h1">>)>>)
  @@ "HDFS" :> ServiceConfig(<<RoleSpec("NAMENODE", <<"h1">>)>>)
  @@ "YARN" :> ServiceConfig(<<RoleSpec("RESOURCEMANAGER", <<"h1">>)>>)
  @@ "SPARK_ON_YARN" :> ServiceConfig(<<RoleSpec("GATEWAY", <<"h2">>)>>)
  @@ "HBASE" :> ServiceConfig(<<RoleSpec("MASTER", <<"h1">>)>>)
  @@ "HIVE" :> ServiceConfig(<<RoleSpec("HIVESERVER2", <<"h2">>)>>)
  @@ "IMPALA" :> ServiceConfig(<<RoleSpec("IMPALAD", <<"h2">>)>>)
  @@ "FLUME" :> ServiceConfig(<<RoleSpec("AGENT", <<"h1">>)>>)
  @@ "OOZIE" :> ServiceConfig(<<RoleSpec("OOZIE_SERVER", <<"h1">>)>>)
  @@ "SQOOP" :> ServiceConfig(<<RoleSpec("SQOOP_SERVER", <<"h2">>)>>)

\* A base service without roles, and an additional service whose second role
\* names no group.
FaultyServices ==
  "ZOOKEEPER" :> ServiceConfig(<<RoleSpec("SERVER", <<"h1">>)>>)
  @@ "YARN" :> ServiceConfigNoRoles
  @@ "HBASE" :> ServiceConfig(<<RoleSpec("MASTER", <<"h1">>),
                                RoleSpecNoGroup(<<"h2">>)>>)

Topologies ==
  {Document(<<"h1", "h2">>, TRUE, SmallServices),
   Document(<<"h1", "h2">>, FALSE, CatalogueServices),
   Document(<<"h1">>, TRUE, FaultyServices)}

-----------------------------------------------------------------------------
(* Initial states *)

NoServices == [k \in ServiceNames |-> NoService]

\* The process at the first statement of `at`, nothing done yet.
Locals(at) ==
  /\ pc = at
  /\ err = "none"
  /\ run = 1
  /\ prev = "none"
  /\ trace = <<>>
  /\ stop = FALSE
  /\ services = <<>>
  /\ ki = 0
  /\ service_classes = <<>>
  /\ ri = 0
  /\ role_id = 0
  /\ ci = 0
  /\ last_cmd = "none"

Start(at) == Locals(at) /\ rt = NoRetry

\* cm.setup() against a control plane that holds no service yet.
Init ==
  /\ Start("create_cluster")
  /\ cfg \in Topologies
  /\ script = <<>>
  /\ cm_cluster \in {[exists |-> FALSE, hosts |-> {}],
                     [exists |-> TRUE, hosts |-> {"h1"}]}
  /\ cm_parcel \in {[known |-> k, stage |-> s, errors |-> FALSE] :
                      k \in BOOLEAN,
                      s \in {"UNAVAILABLE", "DOWNLOADING", "DISTRIBUTING", "ACTIVATED"}}
  /\ cm_config = [value |-> <<>>, default |-> <<"repo-a">>]
  /\ cm_mgmt = NoService
  /\ cm_svc = NoServices
  /\ first = Topology

Next ==
  \/ create_cluster
  \/ add_hosts
  \/ validate
  \/ wait_parcel
  \/ download
  \/ distribute
  \/ activate_parcel
  \/ check_state
  \/ inspect_hosts
  \/ wait_inspect_hosts
  \/ mgmt_service
  \/ mgmt_roles
  \/ mgmt_groups
  \/ mgmt_start
  \/ orchestrate
  \/ deploy
  \/ update_config
  \/ role_group
  \/ create_roles
  \/ role_update_config
  \/ pre_start
  \/ cluster_stop
  \/ cluster_start
  \/ post_start
  \/ deploy_client_config
  \/ reinvoke

Spec == Init /\ [][Next]_vars

\* retry(attempts, delay) around a function whose invocations end as `script` says.
Outcomes == {Returns("a"), Returns("b"), Raises("ApiException"),
             Raises("SystemExit"), Raises("Exception")}

InitRetry ==
  /\ Locals("retry")
  /\ cfg \in {Document(<<>>, FALSE, <<>>)}
  /\ script \in [1..MaxAttempts -> Outcomes]
  /\ \E attempts \in 0..MaxAttempts, delay \in {DefaultDelay, CheckStateDelay} :
       rt = retry_enter(attempts, delay)
  /\ cm_cluster = [exists |-> FALSE, hosts |-> {}]
  /\ cm_parcel = [known |-> FALSE, stage |-> "UNAVAILABLE", errors |-> FALSE]
  /\ cm_config = [value |-> <<>>, default |-> <<"repo-a">>]
  /\ cm_mgmt = NoService
  /\ cm_svc = NoServices
  /\ first = Topology

NextRetry == retry_call

SpecRetry == InitRetry /\ [][NextRetry]_vars

\* create_cluster() on its own, for every short host list and enrolment.
InitCluster ==
  /\ Start("create_cluster")
  /\ \E hosts \in SeqUpTo(Hosts, MaxListedHosts) :
       cfg = Document(hosts, TRUE, SmallServices)
  /\ script = <<>>
  /\ cm_cluster \in {[exists |-> FALSE, hosts |-> {}]}
                    \cup {[exists |-> TRUE, hosts |-> H] : H \in SUBSET Hosts}
  /\ cm_parcel = [known |-> TRUE, stage |-> "UNAVAILABLE", errors |-> FALSE]
  /\ cm_config = [value |-> <<>>, default |-> <<"repo-a">>]
  /\ cm_mgmt = NoService
  /\ cm_svc = NoServices
  /\ first = Topology

NextCluster == create_cluster \/ add_hosts

SpecCluster == InitCluster /\ [][NextCluster]_vars

\* Parcels(...) followed by download(), distribute(), activate(), from every
\* state the parcel may be in.
InitParcels ==
  /\ Start("validate")
  /\ \E hasRepo \in BOOLEAN : cfg = Document(<<"h1">>, hasRepo, SmallServices)
  /\ script = <<>>
  /\ cm_cluster = [exists |-> TRUE, hosts |-> {"h1"}]
  /\ cm_parcel \in {[known |-> k, stage |-> s, errors |-> e] :
                      k \in BOOLEAN, s \in Range(Stages), e \in BOOLEAN}
  /\ cm_config \in {[value |-> v, default |-> <<"repo-a">>] :
                      v \in {<<>>, <<"repo-c">>}}
  /\ cm_mgmt = NoService
  /\ cm_svc = NoServices
  /\ first = Topology

NextParcels ==
  \/ validate
  \/ wait_parcel
  \/ download
  \/ distribute
  \/ activate_parcel
  \/ check_state

SpecParcels == InitParcels /\ [][NextParcels]_vars

\* Service.deploy() of one service on its own, for every short 'roles' list.
RoleSpecs ==
  {RoleSpec(g, hs) : g \in {"SERVER", "GATEWAY"},
                     hs \in {<<>>, <<"h1">>, <<"h1", "h2">>, <<"h2", "h1">>}}
  \cup {RoleSpecNoGroup(hs) : hs \in {<<>>, <<"h1">>}}
  \cup {RoleSpecNoHosts("SERVER"), RoleSpecEmpty}

ServiceConfigs ==
  {ServiceConfigNoRoles}
  \cup {ServiceConfig(roles) : roles \in SeqUpTo(RoleSpecs, MaxRoleSpecs)}

\* The service as an earlier run may have left it.
ServiceStates(service) ==
  {NoService, NewService,
   [NewService EXCEPT !.roles = {Role(role_name(service, "SERVER", 1), "SERVER", "h3")}],
   [NewService EXCEPT !.serviceState = "STARTED", !.config = "old-config",
                      !.roles = {Role(role_name(service, "SERVER", 1), "SERVER", "h3")}]}

InitDeploy ==
  /\ pc = "deploy"
  /\ err = "none"
  /\ run = 1
  /\ prev = "none"
  /\ rt = NoRetry
  /\ stop = FALSE
  /\ services \in {<<"Zookeeper">>, <<"Hdfs">>}
  /\ trace = <<SvcOp("deploy", Upper(services[1]))>>
  /\ ki = 1
  /\ service_classes = <<>>
  /\ ri = 0
  /\ role_id = 0
  /\ ci = 0
  /\ last_cmd = "none"
  /\ \E config \in ServiceConfigs :
       cfg = Document(<<"h1", "h2">>, TRUE, Upper(services[1]) :> config)
  /\ script = <<>>
  /\ cm_cluster = [exists |-> TRUE, hosts |-> {"h1", "h2"}]
  /\ cm_parcel = [known |-> TRUE, stage |-> "ACTIVATED", errors |-> FALSE]
  /\ cm_config = [value |-> <<>>, default |-> <<"repo-a">>]
  /\ cm_mgmt = NoService
  /\ \E state \in ServiceStates(Upper(services[1])) :
       cm_svc = [NoServices EXCEPT ![Upper(services[1])] = state]
  /\ first = Topology

NextDeploy ==
  \/ deploy
  \/ update_config
  \/ role_group
  \/ create_roles
  \/ role_update_config

SpecDeploy == InitDeploy /\ [][NextDeploy]_vars

-----------------------------------------------------------------------------
(* Properties of retry, under SpecRetry *)

Transient(j) == script[j].kind = "ApiException"

\* C4: for attempts >= 1 the wrapped function is invoked at most `attempts` times,
\* each invocation but the first follows a transient failure and one sleep of
\* `delay`, the first successful invocation's result is returned unchanged, and
\* `attempts` transient failures in a row end the wrapper with that ApiException.
C4_RetryIsBounded ==
  (pc = "retry" /\ rt.attempts >= 1) =>
    /\ rt.calls <= rt.attempts
    /\ \A j \in 1..(rt.calls - 1) : Transient(j)
    /\ rt.sleeps = (IF rt.status = "running" THEN rt.calls ELSE rt.calls - 1)
    /\ rt.sleeps <= rt.attempts - 1
    /\ rt.slept = rt.sleeps * rt.delay
    /\ rt.status = "returned" =>
         /\ script[rt.calls].kind = "return"
         /\ rt.result = script[rt.calls].value
    /\ (rt.calls = rt.attempts /\ \A j \in 1..rt.attempts : Transient(j)) =>
         /\ rt.status = "raised"
         /\ rt.exc = "ApiException"
    /\ (rt.calls >= 1 /\ script[rt.calls].kind = "return") => rt.status = "returned"

\* Every attempt failed transiently and the wrapper raised after a retry.
C4_Witness ==
  /\ pc = "retry"
  /\ rt.attempts >= 2
  /\ rt.calls = rt.attempts
  /\ rt.sleeps = rt.attempts - 1
  /\ rt.status = "raised"
  /\ rt.exc = "ApiException"

\* C5: a failure other than ApiException ends the wrapper at once with that
\* failure: no sleep follows it and the function is not invoked again.
C5_NonTransientPropagates ==
  (pc = "retry" /\ rt.calls >= 1
     /\ script[rt.calls].kind \notin {"return", "ApiException"}) =>
    /\ rt.status = "raised"
    /\ rt.exc = script[rt.calls].kind
    /\ rt.sleeps = rt.calls - 1
    /\ ~ENABLED retry_call

\* fail()'s SystemExit on the first of several attempts.
C5_Witness ==
  /\ pc = "retry"
  /\ rt.attempts >= 2
  /\ rt.calls = 1
  /\ script[1].kind = "SystemExit"
  /\ rt.status = "raised"
  /\ rt.sleeps = 0

-----------------------------------------------------------------------------
(* Properties of create_cluster, under SpecCluster *)

NoDuplicates(seq) == \A i, j \in DOMAIN seq : i # j => seq[i] # seq[j]

HasOp(op) == \E j \in DOMAIN trace : trace[j].op = op

\* C6: the cluster is created only when get_cluster reports not-found, and
\* add_hosts is given exactly the listed hosts that list_hosts did not report,
\* each of them once, so that the enrolled set afterwards is the union.
C6_OnlyNewHostsOnce ==
  pc = "validate" =>
    LET enrolled == Range(trace[Len(trace) - 1].hs)
        added == trace[Len(trace)].hs
    IN /\ HasOp("create_cluster") <=> trace[1].h = "ApiException"
       /\ Range(added) = Range(cfg.cluster.hosts) \ enrolled
       /\ NoDuplicates(added)
       /\ cm_cluster.hosts = enrolled \cup Range(cfg.cluster.hosts)

-----------------------------------------------------------------------------
(* Properties of Parcels, under SpecParcels *)

Checks == {"check_download", "check_distribute", "check_activate"}

\* The state download, distribute and activate each aim at.
PhaseTarget(at) ==
  CASE at = "check_download" -> "DOWNLOADED"
    [] at = "check_distribute" -> "DISTRIBUTED"
    [] at = "check_activate" -> "ACTIVATED"

\* The last poll of check_state signalled a transient failure.
PolledAgain == pc \in Checks /\ rt.status = "running" /\ rt.calls >= 1

\* The stages in which no phase is in progress, at or beyond a target.
SettledAtOrBeyond(target) ==
  {stage \in {"DOWNLOADED", "DISTRIBUTED", "ACTIVATED", "INUSE"} :
     StageRank(stage) >= StageRank(target)}

\* C7 as claimed: a post-check that fetches an error-free parcel in any stage at
\* or beyond the phase's target succeeds, so it never polls again on such a stage.
C7_AtOrBeyondIsSuccess ==
  PolledAgain =>
    ~(/\ ~cm_parcel.errors
      /\ StageRank(cm_parcel.stage) >= StageRank(PhaseTarget(pc)))

\* C7 as amended: the post-check succeeds exactly on the error-free settled
\* stages DOWNLOADED, DISTRIBUTED, ACTIVATED, INUSE at or beyond the target; on
\* DISTRIBUTING and ACTIVATING it signals a transient failure and polls again.
C7_SettledAtOrBeyondIsSuccess ==
  LET accepted(at) == /\ ~cm_parcel.errors
                      /\ cm_parcel.stage \in SettledAtOrBeyond(PhaseTarget(at))
  IN /\ PolledAgain => ~cm_parcel.errors /\ ~accepted(pc)
     /\ (rt.status = "returned" /\ pc = "distribute") => accepted("check_download")
     /\ (rt.status = "returned" /\ pc = "activate") => accepted("check_distribute")
     /\ (rt.status = "returned" /\ pc = "inspect_hosts") => accepted("check_activate")

\* download()'s post-check passed at its first poll on a parcel already DISTRIBUTED.
C7_Witness ==
  /\ pc = "distribute"
  /\ rt.status = "returned"
  /\ rt.calls = 1
  /\ cm_parcel.stage = "DISTRIBUTED"
  /\ ~cm_parcel.errors

-----------------------------------------------------------------------------
(* Properties of Service.deploy, under SpecDeploy *)

RoleCallOps == {"get_role_config_group", "group_update_config", "get_role",
                "create_role", "role_update_config"}

\* The entry of 'roles' an event of the trace belongs to: deploy() pushes one
\* role-group config per entry before it creates the entry's roles.
EntryOf(j) ==
  Cardinality({x \in 1..j : trace[x].op = "group_update_config"})

\* The number of role lookups of its entry up to and including event j.
OrdinalOf(j) ==
  Cardinality({x \in 1..j : trace[x].op = "get_role" /\ EntryOf(x) = EntryOf(j)})

\* C8: for the service K and an entry with group G and hosts h1..hn, create_roles
\* looks up K-G-1, ..., K-G-n in that order and creates each one that is absent on
\* the host of the same position; it creates no role of another name.
C8_RoleNames ==
  /\ \A j \in DOMAIN trace :
       LET e == trace[j]
           entry == cfg.services[name].roles[EntryOf(j)]
           existed ==
             \/ \E h \in Hosts : <<<<name, e.g, e.i>>, h>> \in first.roles[name]
             \/ \E x \in 1..(j - 1) :
                  /\ trace[x].op = "create_role"
                  /\ trace[x].g = e.g
                  /\ trace[x].i = e.i
       IN /\ e.op = "get_role" =>
               /\ e.k = name
               /\ e.g = entry.group
               /\ e.i = OrdinalOf(j)
               /\ e.i <= Len(entry.hosts)
               /\ e.h = "found" <=> existed
               /\ e.h = "ApiException" <=>
                    /\ j < Len(trace)
                    /\ trace[j + 1] =
                         RoleOp("create_role", e.k, e.g, e.i, entry.hosts[e.i])
          /\ e.op = "create_role" =>
               /\ trace[j - 1] = RoleOp("get_role", e.k, e.g, e.i, "ApiException")
               /\ \E r \in cm_svc[name].roles :
                    r.name = <<name, e.g, e.i>> /\ r.host = e.h /\ r.type = e.g
  /\ \A r \in cm_svc[name].roles :
       \/ <<r.name, r.host>> \in first.roles[name]
       \/ \E j \in DOMAIN trace :
            /\ trace[j] = RoleOp("create_role", name, r.type, trace[j].i, r.host)
            /\ r.name = <<name, r.type, trace[j].i>>
  /\ (pc = "pre_start" /\ HasOp("group_update_config")) =>
       \A n \in 1..Len(cfg.services[name].roles) :
         Cardinality({j \in DOMAIN trace : trace[j].op = "get_role" /\ EntryOf(j) = n})
           = Len(cfg.services[name].roles[n].hosts)

\* Two roles of one entry were created in the order of its hosts.
C8_Witness ==
  /\ pc = "pre_start"
  /\ \E j \in DOMAIN trace :
       /\ trace[j] = RoleOp("create_role", "HDFS", "GATEWAY", 1, "h2")
       /\ \E x \in (j + 1)..Len(trace) :
            trace[x] = RoleOp("create_role", "HDFS", "GATEWAY", 2, "h1")
  /\ \E r \in cm_svc["HDFS"].roles : r.name = <<"HDFS", "GATEWAY", 2>> /\ r.host = "h1"

\* The service deploy() was called on was not started when it was fetched.
NotStartedAtCall ==
  \E j \in DOMAIN trace : trace[j].op = "get_service" /\ trace[j].h # "STARTED"

\* C9: deploy() of a service that is not started and has no roles fails with the
\* configuration error, having issued no role and no role-config-group call.
C9_NoRolesIsRejected ==
  (~get_roles(cfg.services[name]) /\ NotStartedAtCall) =>
    /\ pc \in {"update_config", "failed"}
    /\ pc = "failed" => err = "Exception"
    /\ \A j \in DOMAIN trace : trace[j].op \notin RoleCallOps

\* deploy() of a stopped service with an empty 'roles' list has raised.
C9_Witness ==
  /\ pc = "failed"
  /\ err = "Exception"
  /\ cfg.services[name].hasRoles
  /\ cfg.services[name].roles = <<>>
  /\ NotStartedAtCall
  /\ HasOp("service_update_config")

\* C10: when a configuration error is raised, no remote mutation has been issued
\* for the service (or bundle) the call is about.
C10_ErrorBeforeMutation ==
  (pc = "failed" /\ err = "Exception") =>
    \A j \in DOMAIN trace : trace[j].op \notin MutationOps

-----------------------------------------------------------------------------
(* Properties of setup(), under Spec *)

AdditionalNames == {Upper(s) : s \in Range(ADDITIONAL_SERVICES)}
BaseNames == {Upper(s) : s \in Range(BASE_SERVICES)}

\* The roles an uninterrupted deploy() of a service creates: for each entry of
\* 'roles' in order, K-G-i on the i-th host unless an earlier entry took the name.
ExpectedRoles(service) ==
  LET roles == cfg.services[service].roles
      taken(n, i) == \E m \in 1..(n - 1) :
                       roles[m].group = roles[n].group /\ i <= Len(roles[m].hosts)
  IN UNION {{<<role_name(service, roles[n].group, i), roles[n].hosts[i]>> :
               i \in {x \in 1..Len(roles[n].hosts) : ~taken(n, x)}} :
            n \in DOMAIN roles}

\* The management roles an uninterrupted deploy_mgmt_services() creates.
ExpectedMgmtRoles ==
  {<<mgmt_role_name(cfg.mgmt[n].group), cfg.mgmt[n].hosts[1]>> :
     n \in {x \in DOMAIN cfg.mgmt :
              \A m \in 1..(x - 1) : cfg.mgmt[m].group # cfg.mgmt[x].group}}

\* The topology one uninterrupted, completed setup() builds on a control plane
\* that held no service.
CompleteTopology ==
  [cluster |-> TRUE,
   hosts |-> first.hosts \cup Range(cfg.cluster.hosts),
   services |-> {k \in ServiceNames : cfg.services[k].present},
   roles |-> [k \in ServiceNames |->
                IF cfg.services[k].present THEN ExpectedRoles(k) ELSE {}],
   mgmt |-> TRUE,
   mgmt_roles |-> ExpectedMgmtRoles]

\* C1: a completed setup() builds the topology of the document, and a second
\* setup() after it, nothing else having changed the control plane, creates no
\* cluster, no service, no role and no management entity, passes no host to
\* add_hosts, and leaves the topology as the first run left it.
C1_SecondRunCreatesNothing ==
  /\ (run = 1 /\ pc = "done") => Topology = CompleteTopology
  /\ (run = 2 /\ prev = "completed") =>
       /\ Created(trace) = {}
       /\ \A j \in DOMAIN trace : trace[j].op = "add_hosts" => trace[j].hs = <<>>
       /\ Topology = first

\* A second run went through every stage again and completed.
C1_Witness ==
  /\ run = 2
  /\ prev = "completed"
  /\ pc = "done"
  /\ HasOp("add_hosts")
  /\ \E j \in DOMAIN trace : trace[j] = SvcAnswer("get_service", "HIVE", "STOPPED")
  /\ \E j \in DOMAIN trace : trace[j].op = "get_role" /\ trace[j].h = "found"
  /\ first.roles["HIVE"] # {}

\* C2: a setup() invoked again after the first one was killed between two remote
\* operations, nothing else having changed the control plane, ends in the
\* topology one uninterrupted run builds.
C2_ResumeBuildsSameTopology ==
  (run = 2 /\ prev = "killed" /\ pc = "done") => Topology = CompleteTopology

\* C3: deploy of an additional service begins only after deploy, pre_start and
\* post_start of every configured base service, and after the cluster stop and
\* the cluster start that follows it, each waited on.
C3_BasePhaseFirst ==
  \A j \in DOMAIN trace :
    (trace[j].op = "deploy" /\ trace[j].k \in AdditionalNames) =>
      LET stopped == Pos(trace, Op("cluster_stop"))
          stop_waited == Pos(trace, WaitOp("", "cluster_stop", 0))
          started == Pos(trace, Op("cluster_start"))
          start_waited == Pos(trace, WaitOp("", "cluster_start", 0))
      IN /\ 0 < stopped /\ stopped < stop_waited /\ stop_waited < started
         /\ started < start_waited /\ start_waited < j
         /\ \A b \in BaseNames :
              cfg.services[b].present =>
                LET deployed == Pos(trace, SvcOp("deploy", b))
                    pre == Pos(trace, SvcOp("pre_start", b))
                    post == Pos(trace, SvcOp("post_start", b))
                IN /\ 0 < deployed /\ deployed < pre /\ pre < stopped
                   /\ start_waited < post /\ post < j

\* A run with the three base services configured has deployed the last
\* additional service.
C3_Witness ==
  /\ run = 1
  /\ pc = "done"
  /\ \A b \in BaseNames : cfg.services[b].present
  /\ \E j \in DOMAIN trace : trace[j] = GroupOp("command", "HDFS", "create_hdfs_tmp")
  /\ \E j \in DOMAIN trace : trace[j] = SvcOp("deploy", "SQOOP")

-----------------------------------------------------------------------------
(* Properties of the entries of 'roles', under SpecDeploy *)

\* The entry names a group and a non-empty host list.
Complete(role) == get_group(role) /\ get_hosts(role)

\* C11: deploy() of a service that is not started aborts at the first entry of
\* 'roles' that lacks a group or a non-empty host list (the raised Exception and
\* the KeyError of a missing key both count as the abort), so it returns only
\* when every entry is complete, and it issues no role-config-group update and
\* no role creation for an incomplete entry.
C11_IncompleteRoleSpecAborts ==
  LET roles == cfg.services[name].roles IN
  /\ (pc = "pre_start" /\ NotStartedAtCall) =>
       \A n \in DOMAIN roles : Complete(roles[n])
  /\ \A j \in DOMAIN trace :
       trace[j].op \in {"group_update_config", "create_role"} =>
         Complete(roles[EntryOf(j)])
  /\ pc = "failed" => err \in {"Exception", "KeyError"}

-----------------------------------------------------------------------------
(* Properties of the stages of setup(), under Spec *)

ClusterOps == {"get_cluster", "create_cluster", "list_hosts", "add_hosts"}
ValidateOps == {"get_parcel", "manager_get_config", "manager_update_config"}
MgmtOps == {"mgmt_get_service", "create_mgmt_service", "mgmt_get_roles_by_type",
            "mgmt_create_role", "mgmt_get_role_config_group",
            "mgmt_group_update_config", "mgmt_start"}

\* The number of events with operation op among the first j events of a trace.
CountOp(t, op, j) == Cardinality({x \in 1..j : t[x].op = op})

\* The stage of setup() the j-th event of the trace belongs to: 1 create cluster,
\* 2 validate, 3 download, 4 distribute, 5 activate, 6 host inspection,
\* 7 management layer, 8 base phase, 9 additional phase, 10 client configs.
StageOf(j) ==
  LET e == trace[j]
      starts == CountOp(trace, "cluster_start", j)
  IN CASE e.op \in ClusterOps -> 1
       [] e.op \in ValidateOps -> 2
       [] e.op = "start_download" -> 3
       [] e.op = "start_distribution" -> 4
       [] e.op = "activate" -> 5
       [] e.op = "inspect_hosts" -> 6
       [] e.op \in MgmtOps \/ e.k = "MGMT" -> 7
       [] e.op = "cluster_stop" \/ e.g = "cluster_stop" -> 8
       [] e.op = "cluster_start" \/ e.g = "cluster_start" ->
            IF starts = 1 THEN 8 ELSE 9
       [] e.op = "deploy_client_config" -> 10
       [] e.k \in BaseNames -> 8
       [] e.k \in AdditionalNames -> 9
       [] OTHER -> 0

\* C12: the remote operations of a run follow the stages of setup() in order; a
\* fatal error ends the run where it is raised, with no further step;
\* deploy_client_config is issued only after every earlier stage has been gone
\* through and succeeded, and it is the last operation of the run.
C12_StagesInOrder ==
  /\ \A j \in DOMAIN trace : StageOf(j) \in 1..10
  /\ \A j \in 2..Len(trace) : StageOf(j - 1) <= StageOf(j)
  /\ pc = "failed" <=> err # "none"
  /\ pc = "failed" =>
       /\ ~HasOp("deploy_client_config")
       /\ ~ENABLED (Next /\ run' = run)
  /\ \A j \in DOMAIN trace :
       /\ StageOf(j) >= 6 =>
            ~cm_parcel.errors /\ cm_parcel.stage \in activate_states
       /\ StageOf(j) >= 8 => cm_mgmt.serviceState = "STARTED"
       /\ trace[j].op = "deploy_client_config" =>
            /\ j = Len(trace)
            /\ pc = "done"
            /\ \A s \in 1..9 :
                 \E x \in 1..(j - 1) : StageOf(x) = s
  /\ pc = "done" => HasOp("deploy_client_config")

\* The management layer did not start: the first run stopped there.
C12_Witness ==
  /\ run = 1
  /\ pc = "failed"
  /\ err = "SystemExit"
  /\ Len(trace) >= 3
  /\ trace[Len(trace) - 2] = Op("mgmt_start")
  /\ trace[Len(trace)] = Op("mgmt_get_service")

-----------------------------------------------------------------------------
(* Properties of the asynchronous commands, under Spec *)

\* The operations that return a command running on the control plane.
CommandOps == {"cluster_stop", "cluster_start", "mgmt_start", "command"}

\* C13: every asynchronous command the run issues is followed at once, before any
\* other remote operation, by a wait on it with a bounded (positive) timeout.
C13_CommandsAreWaitedOn ==
  \A j \in DOMAIN trace :
    trace[j].op \in CommandOps =>
      /\ j < Len(trace)
      /\ trace[j + 1].op = "wait"
      /\ trace[j + 1].i > 0

-----------------------------------------------------------------------------
(* Properties of the pre-start and post-start hooks, under Spec *)

\* The wait on the last command of a hook reported that it did not succeed.
HookCommandFailed == last_cmd = "failure"

\* The step the run takes after a command of a hook: the next command of the
\* same hook when there is one, else the next service, the cluster stop or
\* start, the next post-start hook or the return to setup().
GoesOn ==
  /\ err' = "none"
  /\ pc' # "failed"
  /\ pc = "pre_start" =>
       /\ ci \in 1..(Len(pre_start_commands(name)) - 1)
       /\ pc' \in {"pre_start", "orchestrate"}
       /\ pc' = "orchestrate" <=> ci + 1 = Len(pre_start_commands(name))
       /\ pc' = "orchestrate" => service_classes' = Append(service_classes, name)
       /\ trace' = trace \o cmd_events(name, pre_start_commands(name)[ci + 1])
  /\ pc = "orchestrate" =>
       /\ service_classes # <<>>
       /\ service_classes[Len(service_classes)] = Upper(services[ki - 1])
       /\ pc' \in {"deploy", "orchestrate", "cluster_stop", "cluster_start"}
       /\ pc' = "deploy" => trace' = trace \o <<SvcOp("deploy", name)>>
  /\ pc = "post_start" =>
       /\ pc' \in {"post_start", "orchestrate", "deploy_client_config"}
       /\ ci >= 1 =>
            /\ pc' = "post_start"
            /\ trace' = trace \o cmd_events(service_classes[ki],
                                  post_start_commands(service_classes[ki])[ci + 1])
       /\ (ci = 0 /\ ki <= Len(service_classes)) =>
            /\ pc' = "post_start"
            /\ trace'[Len(trace) + 1] = SvcOp("post_start", service_classes[ki])

\* C14: a command of a pre-start or post-start hook that did not succeed does not
\* end the run: the run is still going, and its next step is the one that follows
\* the command in the hook or, after the hook's last command, in the
\* orchestration.
C14_FailedCommandGoesOn ==
  /\ [](HookCommandFailed =>
          /\ pc \in {"pre_start", "orchestrate", "post_start"}
          /\ err = "none")
  /\ [][(HookCommandFailed /\ run' = run) => GoesOn]_vars

\* The first command of Oozie's pre-start hook failed and the second is due.
C14_Witness ==
  /\ HookCommandFailed
  /\ pc = "pre_start"
  /\ name = "OOZIE"
  /\ ci = 1
  /\ trace[Len(trace)] = WaitOp("OOZIE", "create_oozie_db", LongWait)

-----------------------------------------------------------------------------
(* Properties of Parcels.validate and check_state, under SpecParcels *)

\* The last remote operation of the run so far.
LastOp == IF trace = <<>> THEN "none" ELSE trace[Len(trace)].op

\* validate() has added the supplementary repository and polls, or has polled.
Remediated == LastOp = "manager_update_config"

\* C15: after adding the supplementary repository to the URLs already configured,
\* validate() polls for the parcel up to 20 times, 30s apart: it fails for a
\* parcel that stays unknown only after 20 polls.
C15_ValidatePollsTwentyTimes ==
  Remediated =>
    /\ cm_config.value \in {<<"repo-a", cfg.parcel.repo>>, <<"repo-c", cfg.parcel.repo>>}
    /\ rt.calls <= CheckStateAttempts
    /\ rt.slept = rt.sleeps * CheckStateDelay
    /\ (pc = "failed" /\ err = "ApiException") => rt.calls = CheckStateAttempts

\* The check_state call that download, distribute or activate made last.
LastCheck ==
  CASE LastOp = "start_download" -> "check_download"
    [] LastOp = "start_distribution" -> "check_distribute"
    [] LastOp = "activate" -> "check_activate"
    [] OTHER -> "none"

\* C16: a poll of check_state, cm_parcel being the parcel it fetched, ends in one
\* of three ways: errors fail the run on that poll, whatever the stage; else a
\* stage among the target states returns; else the parcel is polled again, and
\* the 20th such poll fails the run with the transient failure.
C16_CheckStateOutcomes ==
  LastCheck # "none" =>
    LET target == states_of(LastCheck) IN
    /\ rt.attempts = CheckStateAttempts
    /\ rt.delay = CheckStateDelay
    /\ rt.calls <= CheckStateAttempts
    /\ rt.status \in {"running", "returned", "raised"}
    /\ rt.status = "running" =>
         /\ pc = LastCheck
         /\ err = "none"
         /\ rt.calls < CheckStateAttempts
         /\ rt.calls >= 1 => ~cm_parcel.errors /\ cm_parcel.stage \notin target
    /\ rt.status = "returned" =>
         /\ pc = after_check(LastCheck)
         /\ err = "none"
         /\ rt.calls >= 1
         /\ ~cm_parcel.errors
         /\ cm_parcel.stage \in target
    /\ rt.status = "raised" =>
         /\ pc = "failed"
         /\ IF cm_parcel.errors
            THEN err = "SystemExit"
            ELSE /\ err = "ApiException"
                 /\ rt.calls = CheckStateAttempts
                 /\ cm_parcel.stage \notin target

\* distribute()'s check polled once without result, then fetched a parcel that
\* carries errors in a target state and failed the run.
C16_Witness ==
  /\ LastCheck = "check_distribute"
  /\ pc = "failed"
  /\ err = "SystemExit"
  /\ rt.calls = 2
  /\ cm_parcel.errors
  /\ cm_parcel.stage = "DISTRIBUTED"

\* The parcel stayed in progress for all 20 polls of download()'s check.
C16_Exhausted ==
  /\ LastCheck = "check_download"
  /\ pc = "failed"
  /\ err = "ApiException"
  /\ rt.calls = CheckStateAttempts

-----------------------------------------------------------------------------
(* Properties of wait_inspect_hosts, under Spec *)

\* The run is at, or has stopped in, the host inspection.
Inspecting == LastOp = "inspect_hosts"

\* C17: a poll of the inspection command, last_cmd being the cmd.success it
\* fetched, is repeated when it is pending, stops the run when it is a failure,
\* and lets the run go on to the management layer when it is a success; the
\* 20th pending poll stops the run, so the command is polled at most 20 times.
C17_InspectOutcomes ==
  /\ Inspecting =>
       /\ rt.attempts = InspectAttempts
       /\ rt.delay = InspectDelay
       /\ rt.calls <= InspectAttempts
       /\ rt.sleeps = (IF rt.status = "running" THEN rt.calls ELSE rt.calls - 1)
       /\ rt.status \in {"running", "returned", "raised"}
       /\ rt.calls = 0 => last_cmd = "none"
       /\ rt.calls >= 1 => last_cmd \in {"None", "True", "False"}
       /\ last_cmd = "None" <=>
            \/ /\ rt.calls \in 1..(InspectAttempts - 1)
               /\ rt.status = "running"
               /\ pc = "wait_inspect_hosts"
            \/ /\ rt.calls = InspectAttempts
               /\ pc = "failed"
               /\ err = "ApiException"
       /\ last_cmd = "False" <=> pc = "failed" /\ err = "SystemExit"
       /\ last_cmd = "True" <=> pc = "mgmt_service" /\ rt.status = "returned"
  /\ \A j \in DOMAIN trace :
       StageOf(j) >= 7 => last_cmd \notin {"None", "False"}

\* The inspection failed at the third poll, after two pending ones.
C17_Witness ==
  /\ Inspecting
  /\ rt.calls = 3
  /\ last_cmd = "False"
  /\ pc = "failed"
  /\ ~HasOp("mgmt_get_service")

\* The inspection was still pending at the 20th poll.
C17_Exhausted ==
  /\ Inspecting
  /\ rt.calls = InspectAttempts
  /\ last_cmd = "None"
  /\ pc = "failed"
  /\ err = "ApiException"

-----------------------------------------------------------------------------
(* Properties of deploy_mgmt_services, under Spec *)

\* The operations by which deploy_mgmt_services changes the management service.
MgmtChangeOps == {"create_mgmt_service", "mgmt_create_role",
                  "mgmt_group_update_config", "mgmt_start"}

\* deploy_mgmt_services has returned normally in this run.
MgmtReturned ==
  /\ HasOp("mgmt_get_service")
  /\ pc \notin {"mgmt_service", "mgmt_roles", "mgmt_groups", "mgmt_start"}
  /\ ~(pc = "failed" /\ LastOp = "mgmt_get_service")
  /\ ~(pc = "blocked" /\ trace[Len(trace)] = WaitOp("MGMT", "start", 0))

\* The management roles of a role type that existed when the run began or that
\* the run created before the j-th event of its trace.
MgmtRoleBefore(type, j) ==
  \/ \E h \in Hosts : <<mgmt_role_name(type), h>> \in first.mgmt_roles
  \/ \E x \in 1..(j - 1) : trace[x].op = "mgmt_create_role" /\ trace[x].g = type

\* C18: deploy_mgmt_services returns only with the management service STARTED;
\* when it finds it STARTED it changes nothing; otherwise it creates, for each
\* configured role type without a role, one role {type}-1 on the type's first
\* listed host, pushes every role-group config, starts the service and waits,
\* and fails the run before any cluster service is deployed if the service is
\* then not STARTED.
C18_MgmtStartedOrFatal ==
  /\ MgmtReturned => cm_mgmt.exists /\ cm_mgmt.serviceState = "STARTED"
  /\ (MgmtReturned /\ ~HasOp("mgmt_start")) =>
       \A j \in DOMAIN trace : trace[j].op \notin MgmtChangeOps
  /\ (MgmtReturned /\ HasOp("mgmt_start")) =>
       /\ \A n \in DOMAIN cfg.mgmt :
            /\ \E j \in DOMAIN trace :
                 trace[j] = GroupOp("mgmt_group_update_config", "MGMT",
                                    cfg.mgmt[n].group)
            /\ \E r \in cm_mgmt.roles : r.type = cfg.mgmt[n].group
       /\ \E j \in DOMAIN trace :
            /\ trace[j] = Op("mgmt_start")
            /\ trace[j + 1] = WaitOp("MGMT", "start", 0)
            /\ trace[j + 2] = Op("mgmt_get_service")
            /\ \A x \in 1..(j - 1) : trace[x].op # "mgmt_start"
  /\ \A j \in DOMAIN trace :
       /\ trace[j].op = "create_mgmt_service" => ~first.mgmt
       /\ trace[j].op = "mgmt_create_role" =>
            /\ trace[j].i = 1
            /\ ~MgmtRoleBefore(trace[j].g, j)
            /\ \E n \in DOMAIN cfg.mgmt :
                 /\ cfg.mgmt[n].group = trace[j].g
                 /\ cfg.mgmt[n].hosts[1] = trace[j].h
  /\ \A r \in cm_mgmt.roles :
       /\ r.name = <<r.type, 1>>
       /\ \E n \in DOMAIN cfg.mgmt :
            cfg.mgmt[n].group = r.type /\ cfg.mgmt[n].hosts[1] = r.host
       /\ \A q \in cm_mgmt.roles : q.type = r.type => q = r
  /\ (pc = "failed" /\ LastOp = "mgmt_get_service") =>
       /\ err = "SystemExit"
       /\ cm_mgmt.serviceState # "STARTED"
       /\ HasOp("mgmt_start")
       /\ \A j \in DOMAIN trace : StageOf(j) <= 7

\* A run resumed after the first one was killed between the two role creations:
\* it created the missing role only, started the service and went on.
C18_Witness ==
  /\ run = 2
  /\ prev = "killed"
  /\ MgmtReturned
  /\ Cardinality(first.mgmt_roles) = 1
  /\ Cardinality({j \in DOMAIN trace : trace[j].op = "mgmt_create_role"}) = 1
  /\ \E j \in DOMAIN trace :
       trace[j] = RoleOp("mgmt_create_role", "MGMT", "HOSTMONITOR", 1, "h2")
  /\ HasOp("mgmt_start")
  /\ HasOp("deploy")

-----------------------------------------------------------------------------
(* Properties of deploy() on a started service, under SpecDeploy *)

\* deploy() is being called on a service that exists and reports STARTED.
CalledOnStarted ==
  /\ pc = "deploy"
  /\ cm_svc[name].exists
  /\ cm_svc[name].serviceState = "STARTED"

\* The answer of get_service at the start of deploy() was STARTED.
FoundStarted ==
  \E j \in DOMAIN trace : trace[j] = SvcAnswer("get_service", name, "STARTED")

\* C19: deploy() called on a service that exists and is STARTED fetches the
\* service and returns: the control plane is unchanged, and the call issues no
\* create_service, no config update and no role or role-config-group call.
C19_StartedIsLeftAlone ==
  /\ [][CalledOnStarted =>
          /\ pc' = "pre_start"
          /\ err' = "none"
          /\ trace' = trace \o <<SvcAnswer("get_service", name, "STARTED")>>
          /\ UNCHANGED remoteVars]_vars
  /\ [](FoundStarted =>
          /\ pc = "pre_start"
          /\ trace[Len(trace)] = SvcAnswer("get_service", name, "STARTED")
          /\ \A j \in DOMAIN trace :
               trace[j].op \notin MutationOps \cup RoleCallOps
          /\ cm_svc[name].serviceState = "STARTED"
          /\ {<<r.name, r.host>> : r \in cm_svc[name].roles} = first.roles[name])

\* deploy() returned from a started Zookeeper service whose document lists two
\* complete entries of 'roles' and a config the service does not have.
C19_Witness ==
  /\ FoundStarted
  /\ pc = "pre_start"
  /\ name = "ZOOKEEPER"
  /\ Len(cfg.services[name].roles) = 2
  /\ \A n \in 1..2 : Complete(cfg.services[name].roles[n])
  /\ cm_svc[name].config # cfg.services[name].config
  /\ cm_svc[name].roles # {}

-----------------------------------------------------------------------------
(* Properties of one service_orchestrate call, under Spec *)

\* The list a service was passed in, and its position there.
ListOf(k) == IF k \in BaseNames THEN BASE_SERVICES ELSE ADDITIONAL_SERVICES
ListIndex(k) == CHOOSE i \in DOMAIN ListOf(k) : Upper(ListOf(k)[i]) = k

\* Both services are handled by the same call, a before b.
Before(a, b) ==
  /\ (a \in BaseNames) = (b \in BaseNames)
  /\ ListIndex(a) < ListIndex(b)

\* The position of the n-th cluster start in the trace, 0 when there is none.
NthStart(n) ==
  IF CountOp(trace, "cluster_start", Len(trace)) >= n
  THEN CHOOSE j \in DOMAIN trace :
         trace[j].op = "cluster_start" /\ CountOp(trace, "cluster_start", j) = n
  ELSE 0

\* The call that handles service k has returned.
Returned(k) ==
  \/ pc \in {"deploy_client_config", "done"}
  \/ k \in BaseNames /\ services = ADDITIONAL_SERVICES

\* The remote operations of a whole hook, in order.
RECURSIVE HookTrace(_, _, _)
HookTrace(k, cmds, n) ==
  IF n = 0 THEN <<>>
  ELSE HookTrace(k, cmds, n - 1) \o cmd_events(k, cmds[n])

\* The hook whose marker is at position p ran all its commands before position q.
HookDoneBefore(k, cmds, p, q) ==
  LET events == HookTrace(k, cmds, Len(cmds))
  IN /\ p + Len(events) < q
     /\ SubSeq(trace, p + 1, p + Len(events)) = events

Marks == {"deploy", "pre_start", "post_start"}

\* C20: within a service_orchestrate call only configured services are touched;
\* they are deployed in list order, deploy() then the whole pre_start() of one
\* before deploy() of the next; the cluster is stopped, and the stop waited on,
\* only in the call with stop=True and before its start; the cluster is started
\* once, after the last pre_start(); post_start() then runs once for each
\* deployed service, in deployment order, after the wait on the start.
C20_OrchestrateOrder ==
  LET deployed(k) == Pos(trace, SvcOp("deploy", k))
      pre(k) == Pos(trace, SvcOp("pre_start", k))
      post(k) == Pos(trace, SvcOp("post_start", k))
      stops == CountOp(trace, "cluster_stop", Len(trace))
      starts == CountOp(trace, "cluster_start", Len(trace))
      start1 == NthStart(1)
      start2 == NthStart(2)
      start(k) == IF k \in BaseNames THEN start1 ELSE start2
  IN
  /\ \A j \in DOMAIN trace :
       trace[j].k \in ServiceNames => cfg.services[trace[j].k].present
  /\ \A k \in ServiceNames, m \in Marks :
       Cardinality({j \in DOMAIN trace : trace[j] = SvcOp(m, k)}) <= 1
  /\ \A b \in ServiceNames :
       LET db == deployed(b)
           pb == pre(b)
           qb == post(b)
           sb == start(b)
       IN db > 0 =>
            /\ \A j \in DOMAIN trace :
                 trace[j].k = b =>
                   /\ db <= j
                   /\ (qb > 0 /\ j < qb) => j < sb
            /\ pb > 0 => db < pb
            /\ \A a \in ServiceNames :
                 (Before(a, b) /\ cfg.services[a].present) =>
                   LET da == deployed(a)
                       pa == pre(a)
                       qa == post(a)
                   IN /\ 0 < da
                      /\ da < pa
                      /\ HookDoneBefore(a, pre_start_commands(a), pa, db)
                      /\ \A j \in db..Len(trace) :
                           trace[j].k = a => (0 < qa /\ qa <= j)
  /\ stops <= 1
  /\ starts <= 2
  /\ starts >= 1 =>
       /\ stops = 1
       /\ start1 >= 3
       /\ trace[start1 - 2] = Op("cluster_stop")
       /\ trace[start1 - 1] = WaitOp("", "cluster_stop", 0)
  /\ stops = 1 =>
       LET stopped == Pos(trace, Op("cluster_stop"))
       IN \A j \in DOMAIN trace : trace[j].k \in AdditionalNames => stopped < j
  /\ starts >= 1 =>
       start1 < Len(trace) /\ trace[start1 + 1] = WaitOp("", "cluster_start", 0)
  /\ starts >= 2 =>
       start2 < Len(trace) /\ trace[start2 + 1] = WaitOp("", "cluster_start", 0)
  /\ \A k \in ServiceNames :
       LET dk == deployed(k)
           pk == pre(k)
           qk == post(k)
           sk == start(k)
       IN /\ (dk > 0 /\ sk > 0) =>
               /\ pk > 0
               /\ HookDoneBefore(k, pre_start_commands(k), pk, sk)
          /\ qk > 0 =>
               /\ pk > 0
               /\ sk > 0
               /\ sk + 1 < qk
               /\ \A a \in ServiceNames :
                    (Before(a, k) /\ pre(a) > 0) =>
                      /\ post(a) > 0
                      /\ HookDoneBefore(a, post_start_commands(a), post(a), qk)
          /\ (Returned(k) /\ pk > 0) =>
               /\ qk > 0
               /\ HookDoneBefore(k, post_start_commands(k), qk, Len(trace) + 1)

\* Both calls of a run over the whole catalogue have returned.
C20_Witness ==
  /\ run = 1
  /\ pc = "deploy_client_config"
  /\ \A k \in ServiceNames : cfg.services[k].present
  /\ CountOp(trace, "cluster_stop", Len(trace)) = 1
  /\ CountOp(trace, "cluster_start", Len(trace)) = 2
  /\ Pos(trace, SvcOp("post_start", "OOZIE")) < Pos(trace, SvcOp("post_start", "SQOOP"))

-----------------------------------------------------------------------------
(* Properties of Zookeeper.create_roles, under SpecDeploy *)

\* The role instances deploy() has created or fetched so far.
Fetched ==
  {r \in cm_svc[name].roles :
     \E j \in DOMAIN trace :
       trace[j].op = "get_role" /\ r.name = <<name, trace[j].g, trace[j].i>>}

\* C21: when deploy() of a Zookeeper service that was not started returns, every
\* role instance it created or fetched has a serverId, and no two role
\* instances of the service have the same serverId.
C21_ServerIdsAreUnique ==
  (name = "ZOOKEEPER" /\ pc = "pre_start" /\ NotStartedAtCall) =>
    /\ \A r \in Fetched : r.serverId >= 1
    /\ \A r, q \in Fetched : r # q => r.serverId # q.serverId

-----------------------------------------------------------------------------
(* Termination of setup(), under Spec *)

\* setup() has returned or has been ended by an exception.
Terminated == pc \in {"done", "failed"}

\* C22: every wait of a run is bounded: a polled wait is invoked fewer times
\* than its attempt bound allows while it goes on, and a run that has not
\* terminated is never held in a wait for good, it can always take its next
\* step.
C22_EveryWaitIsBounded ==
  /\ rt.status = "running" =>
       rt.calls < rt.attempts /\ rt.attempts <= CheckStateAttempts
  /\ ~Terminated => ENABLED (Next /\ run' = run)

====
